---- MODULE Spec2Model ----
(***************************************************************************)
(* Model of src/struct_util.rs: read_struct and read_struct_slice over a   *)
(* byte stream `f: Read`.  The record type T is an opaque blob of          *)
(* mem::size_of::<T>() bytes.  The stream is a finite byte sequence with a *)
(* read cursor; bytes past `readable` cannot be delivered (end of stream   *)
(* when readable = Len(data), an I/O failure otherwise).                   *)
(***************************************************************************)
EXTENDS Integers, Sequences, FiniteSets, TLC

\* ---------------------------------------------------------------- bounds
\* Width of usize in the model; the machine has 64, the arithmetic is the same.
UsizeBits == 8
\* Longest stream.
MaxStream == 4
\* Largest mem::size_of::<T>() (0 is a zero-sized type).
MaxSize == 2
\* Largest "ordinary" len argument of read_struct_slice.
MaxLen == 2
\* Byte values are 0..MaxByte.
MaxByte == 1
\* Calls made on one stream.
MaxCalls == 2

USIZE_MOD == 2 ^ UsizeBits
USIZE_MAX == USIZE_MOD - 1
ISIZE_MAX == 2 ^ (UsizeBits - 1) - 1

Byte == 0 .. MaxByte
\* Marker for a byte of allocated storage that was never written.
Uninit == MaxByte + 1

VARIABLES
    sizeofT,    \* mem::size_of::<T>()
    data,       \* the stream's bytes
    readable,   \* how many of them the stream can deliver before it fails
    pos,        \* the stream's read cursor (bytes consumed)
    out,        \* read_struct's target record `out: &mut T`, as bytes
    pc,         \* "idle"; in read_struct_slice "allocated", "len_set", "read_done"; "panicked"
    vec,        \* read_struct_slice's local `out: Vec<T>`
    ret,        \* what the last finished call returned
    last,       \* ghost: the last call, its arguments and what the stream reported
    calls,      \* ghost: calls started
    structRun   \* ghost: k when the calls so far are k successful read_structs, else -1

vars == <<sizeofT, data, readable, pos, out, pc, vec, ret, last, calls, structRun>>

\* ---------------------------------------------------------------- helpers
RECURSIVE SeqsUpTo(_)
SeqsUpTo(n) ==
    IF n = 0 THEN {<<>>}
    ELSE LET S == SeqsUpTo(n - 1)
         IN  S \cup {Append(s, b) : s \in {t \in S : Len(t) = n - 1}, b \in Byte}

Fill(n, b) == [i \in 1 .. n |-> b]

\* The n bytes of the stream after cursor position p.
StreamSlice(p, n) == SubSeq(data, p + 1, p + n)

NoVec == [alive |-> FALSE, cap |-> 0, len |-> 0, buf |-> <<>>]
NoRet == [op |-> "none", res |-> "none", hasVec |-> FALSE, recs |-> <<>>]
NoCall == [op |-> "none", len |-> 0, prePos |-> 0, kind |-> "none",
           res |-> "none", nReads |-> 0]

\* ---------------------------------------------------------------- the stream
\* The error kind the stream reports when it cannot fill the buffer.
ErrKind == IF readable < Len(data) THEN "Other" ELSE "UnexpectedEof"

\* f.read_exact(buf) with Len(buf) = n at cursor p: either the whole buffer is
\* filled and the cursor moves n bytes, or an error is returned, with an
\* unspecified prefix of the buffer written and the cursor wherever the short
\* read left it.  An empty buffer is always filled.
ReadExactOutcomes(p, n) ==
    IF n <= readable - p
    THEN {[kind |-> "Ok", got |-> StreamSlice(p, n), pos |-> p + n]}
    ELSE UNION {{[kind |-> ErrKind, got |-> StreamSlice(p, k), pos |-> q] :
                   q \in {p + k, readable}} : k \in 0 .. (readable - p)}

\* Writing the bytes `got` through a byte slice over `buf`.
OverwriteKeepLast(buf, got) ==
    IF Len(got) = 0 THEN buf
    ELSE SubSeq(got, 1, Len(got) - 1) \o SubSeq(buf, Len(got), Len(buf))
Overwrite(buf, got) == got \o SubSeq(buf, Len(got) + 1, Len(buf))

\* ---------------------------------------------------------------- read_struct
\* Length of out_slice: mem::size_of::<T>().
OutSliceLenShort == IF sizeofT > 0 THEN sizeofT - 1 ELSE 0
OutSliceLen == sizeofT

\* .map_err(|_| Error::ReadStruct)
MapErrLeak(kind) == kind
MapErrSwallow(kind) == "Ok"
MapErr(kind) == IF kind = "Ok" THEN "Ok" ELSE "ReadStruct"

ReadStruct ==
    /\ pc = "idle"
    /\ calls < MaxCalls
    /\ \E o \in ReadExactOutcomes(pos, OutSliceLen) :
         /\ out' = Overwrite(out, o.got)
         /\ pos' = o.pos
         /\ ret' = [op |-> "read_struct", res |-> MapErr(o.kind),
                    hasVec |-> FALSE, recs |-> <<>>]
         /\ last' = [op |-> "read_struct", len |-> 1, prePos |-> pos,
                     kind |-> o.kind, res |-> MapErr(o.kind), nReads |-> 1]
         /\ structRun' = IF structRun >= 0 /\ MapErr(o.kind) = "Ok"
                         THEN structRun + 1 ELSE -1
    /\ calls' = calls + 1
    /\ UNCHANGED <<sizeofT, data, readable, pc, vec>>

\* ---------------------------------------------------------------- read_struct_slice
\* The len arguments tried: ordinary counts, and counts whose byte size
\* exceeds isize::MAX or wraps usize.
LenArgs ==
    (0 .. MaxLen)
        \cup {ISIZE_MAX + 1, USIZE_MAX}
        \cup (IF sizeofT > 0 THEN {ISIZE_MAX \div sizeofT + 1} ELSE {})

\* Vec::with_capacity(len) panics ("capacity overflow") when the allocation
\* would exceed isize::MAX bytes; a zero-sized T allocates nothing.
CapacityOverflow(len) == sizeofT > 0 /\ len * sizeofT > ISIZE_MAX

\* Length of out_slice: mem::size_of::<T>() * len, in usize arithmetic.  The
\* product is written wrapping; MulInRange shows it is only ever computed for
\* a len that passed with_capacity, where it cannot overflow in any build.
SliceBytesNoSize(len) == len % USIZE_MOD
SliceBytesMin1(len) == (sizeofT * (IF len = 0 THEN 1 ELSE len)) % USIZE_MOD
SliceBytesDropLast(len) == (sizeofT * (IF len = 0 THEN 0 ELSE len - 1)) % USIZE_MOD
SliceBytes(len) == (sizeofT * len) % USIZE_MOD

\* The Vec<T> seen as its len records.
Records(v) == [k \in 1 .. v.len |-> SubSeq(v.buf, (k - 1) * sizeofT + 1, k * sizeofT)]

\* let mut out: Vec<T> = Vec::with_capacity(len);
WithCapacity ==
    /\ pc = "idle"
    /\ calls < MaxCalls
    /\ \E len \in LenArgs :
         IF CapacityOverflow(len)
         THEN /\ pc' = "panicked"
              /\ vec' = NoVec
              /\ last' = [op |-> "read_struct_slice", len |-> len, prePos |-> pos,
                          kind |-> "none", res |-> "panic", nReads |-> 0]
         ELSE /\ pc' = "allocated"
              /\ vec' = [alive |-> TRUE, cap |-> len, len |-> 0,
                         buf |-> Fill(len * sizeofT, Uninit)]
              /\ last' = [op |-> "read_struct_slice", len |-> len, prePos |-> pos,
                          kind |-> "none", res |-> "running", nReads |-> 0]
    /\ calls' = calls + 1
    /\ structRun' = -1
    /\ UNCHANGED <<sizeofT, data, readable, pos, out, ret>>

\* out.set_len(len);
SetLen ==
    /\ pc = "allocated"
    /\ vec' = [vec EXCEPT !.len = last.len]
    /\ pc' = "len_set"
    /\ UNCHANGED <<sizeofT, data, readable, pos, out, ret, last, calls, structRun>>

\* f.read_exact(out_slice).map_err(|_| Error::ReadStruct)
ReadExactSlice ==
    /\ pc = "len_set"
    /\ \E o \in ReadExactOutcomes(pos, SliceBytes(last.len)) :
         /\ vec' = [vec EXCEPT !.buf = Overwrite(vec.buf, o.got)]
         /\ pos' = o.pos
         /\ last' = [last EXCEPT !.kind = o.kind, !.nReads = last.nReads + 1]
    /\ pc' = "read_done"
    /\ UNCHANGED <<sizeofT, data, readable, out, ret, calls, structRun>>

\* `?` returns the error and drops out; otherwise Ok(out).
ReturnSlice ==
    /\ pc = "read_done"
    /\ ret' = IF MapErr(last.kind) = "Ok"
              THEN [op |-> "read_struct_slice", res |-> "Ok",
                    hasVec |-> TRUE, recs |-> Records(vec)]
              ELSE [op |-> "read_struct_slice", res |-> MapErr(last.kind),
                    hasVec |-> FALSE, recs |-> <<>>]
    /\ last' = [last EXCEPT !.res = MapErr(last.kind)]
    /\ vec' = NoVec
    /\ pc' = "idle"
    /\ UNCHANGED <<sizeofT, data, readable, pos, out, calls, structRun>>

Init ==
    /\ sizeofT \in 0 .. MaxSize
    /\ data \in SeqsUpTo(MaxStream)
    /\ readable \in 0 .. Len(data)
    /\ pos = 0
    /\ out = Fill(sizeofT, 0)
    /\ pc = "idle"
    /\ vec = NoVec
    /\ ret = NoRet
    /\ last = NoCall
    /\ calls = 0
    /\ structRun = 0

Next == ReadStruct \/ WithCapacity \/ SetLen \/ ReadExactSlice \/ ReturnSlice

Spec == Init /\ [][Next]_vars

\* ---------------------------------------------------------------- properties
\* The multiplication at out_slice never overflows usize once the Vec exists.
MulInRange ==
    pc \in {"allocated", "len_set", "read_done"} => sizeofT * last.len <= ISIZE_MAX

IsStruct == last.op = "read_struct"
\* A read_struct_slice call that has ended (returned or panicked).
SliceEnded == last.op = "read_struct_slice" /\ last.res # "running"

\* C1: when the stream's next sizeof(T) bytes are available, read_struct
\* succeeds and byte i of the target equals byte i of the consumed region.
C1_RoundTrip ==
    (IsStruct /\ last.prePos + sizeofT <= readable) =>
        /\ last.res = "Ok"
        /\ ret.res = "Ok"
        /\ Len(out) = sizeofT
        /\ \A i \in 1 .. sizeofT : out[i] = data[last.prePos + i]

C1_Witness ==
    /\ IsStruct /\ last.res = "Ok" /\ calls = 1
    /\ sizeofT >= 2
    /\ out[sizeofT] # 0

\* C2: when the stream delivers fewer than sizeof(T) bytes, read_struct fails
\* with ReadStruct, whatever the truncation length.
C2_ShortReadFails ==
    (IsStruct /\ readable - last.prePos < sizeofT) =>
        /\ last.res = "ReadStruct"
        /\ ret.res = "ReadStruct"

C2_Witness ==
    /\ IsStruct /\ sizeofT >= 2
    /\ readable = Len(data)
    /\ readable - last.prePos = sizeofT - 1
    /\ ret.res = "ReadStruct"

C4_SliceShortReadFails ==
    (SliceEnded /\ readable - last.prePos < last.len * sizeofT) =>
        /\ last.res = "ReadStruct"
        /\ ~ret.hasVec

\* C5: read_struct_slice(f, 0) succeeds, leaves the cursor where it was and
\* returns an empty sequence, whatever the stream holds.
C5_ZeroLen ==
    (last.op = "read_struct_slice" /\ last.len = 0) =>
        /\ pos = last.prePos
        /\ last.res \in {"running", "Ok"}
        /\ last.res = "Ok" => (ret.res = "Ok" /\ ret.hasVec /\ ret.recs = <<>>)

C5_Witness ==
    /\ SliceEnded /\ last.len = 0 /\ last.res = "Ok"
    /\ sizeofT > 0
    /\ last.prePos = readable

\* C6: a successful read_struct moves the cursor by exactly sizeof(T), so the
\* k-th of k successful reads from one stream yields the k-th slice.
C6_CursorAdvance ==
    /\ (IsStruct /\ last.res = "Ok") => pos = last.prePos + sizeofT
    /\ structRun >= 1 =>
         /\ pos = structRun * sizeofT
         /\ out = StreamSlice((structRun - 1) * sizeofT, sizeofT)

C6_Witness ==
    /\ structRun = 2 /\ sizeofT = 2
    /\ out # StreamSlice(0, sizeofT)

\* C7: the Vec never has length N while some of its bytes are not yet
\* written from the stream.
C7_NoUninitLen ==
    vec.alive => \A i \in 1 .. vec.len * sizeofT : vec.buf[i] # Uninit

\* C8: every call ends in success with all requested bytes copied, or in the
\* ReadStruct error; there is no third outcome.
C8_TwoOutcomes ==
    /\ last.res \in {"none", "running", "Ok", "ReadStruct"}
    /\ pc # "panicked"
    /\ (last.res = "Ok" /\ pc = "idle") =>
         pos = last.prePos + last.len * sizeofT

\* One read_struct call from cursor p into a fresh record: whether it
\* succeeds, where it leaves the cursor, and the record read.
SingleRead(p) ==
    LET os == ReadExactOutcomes(p, OutSliceLen)
        good == {o \in os : MapErr(o.kind) = "Ok"}
    IN  IF good = {} THEN [ok |-> FALSE, pos |-> p, recs |-> <<>>]
        ELSE LET o == CHOOSE x \in good : TRUE
             IN  [ok |-> TRUE, pos |-> o.pos,
                  recs |-> <<Overwrite(Fill(sizeofT, 0), o.got)>>]

\* n successive read_struct calls from cursor p, stopping at the first
\* failure: the first half of the calls, then the rest from where they ended.
RECURSIVE SuccessiveReads(_, _)
SuccessiveReads(p, n) ==
    IF n = 0 THEN [ok |-> TRUE, pos |-> p, recs |-> <<>>]
    ELSE IF n = 1 THEN SingleRead(p)
    ELSE LET a == SuccessiveReads(p, n \div 2)
         IN  IF ~a.ok THEN a
             ELSE LET b == SuccessiveReads(a.pos, n - n \div 2)
                  IN  [ok |-> b.ok, pos |-> b.pos, recs |-> a.recs \o b.recs]

C10_ErrorsSurface ==
    (last.kind \notin {"none", "Ok"}) =>
        /\ last.nReads = 1
        /\ last.res \in {"running", "ReadStruct"}
        /\ last.res = "ReadStruct" => (ret.res = "ReadStruct" /\ ~ret.hasVec)
        /\ pc \in {"read_done", "idle"}

C10_Witness ==
    /\ SliceEnded /\ last.kind = "Other"
    /\ ret.res = "ReadStruct"
    /\ pc = "idle"
====
